---------------------------- MODULE Spec2Model ----------------------------
(***************************************************************************)
(* A model of the text-processing pipeline of speech_processing_api:       *)
(* TextProcessor.process_text, TextSegmentProcessor.segment_by_emotion,    *)
(* EmotionAnalyzer.analyze, retry_with_timeout, TextImprover.improve_text, *)
(* BiblicalReferenceDetector.find_references,                              *)
(* DuplicationDetector.find_duplicates and HistoryLogger.log_run.          *)
(*                                                                         *)
(* A text is a sequence of characters; a character is written as a short  *)
(* ASCII string.  Legend of the characters that carry meaning:             *)
(*   "F." 。   "F!" ！   "F?" ？   "F;" ；   "F:" ：   "F," ，   "F~" …      *)
(*   "F-" —    "F(" （   "F)" ）   "." "!" "?" ":" "(" ")" and the digits   *)
(*   are themselves;  " " and "\n" are white space                         *)
(*   "dan" 但  "shi" 是  "ran" 然  "er" 而  "bu" 不  "guo" 过  "ke" 可      *)
(*   "que" 却  "fan" 反  "xiang" 相                                         *)
(*   "fei" 腓  "li" 立  "bi" 比  "shu" 书  (腓立比书, 腓立比, 腓)             *)
(*   "G1".."G5" ㈠ ㈡ ㈢ ㈣ ㈤   "G6" ㈥                                      *)
(*   "SHUO" 說 (traditional)   "shuo" 说 (simplified)                       *)
(*   "SUR" a lone surrogate, which str.encode() rejects                    *)
(* Every other string ("wo", "jin", "tian", ...) is an ordinary character. *)
(*                                                                         *)
(* Scores are Python floats; the model holds them in tenths (3.5 is 35).   *)
(***************************************************************************)
EXTENDS Integers, Sequences, FiniteSets, TLC

\* ------------------------------------------------------------------------
\* Python str and re helpers
\* ------------------------------------------------------------------------

Min(S) == CHOOSE x \in S : \A y \in S : x <= y

Max(S) == CHOOSE x \in S : \A y \in S : x >= y

Whitespace == {" ", "\n", "\t"}

\* the number of consecutive characters of s from position i that are in C
RECURSIVE RunLen(_, _, _)
RunLen(s, i, C) ==
    IF i > Len(s) \/ s[i] \notin C THEN 0 ELSE 1 + RunLen(s, i + 1, C)

\* str.strip(): from the first to the last character that is no white space
Strip(s) ==
    IF \A i \in 1..Len(s) : s[i] \in Whitespace THEN <<>>
    ELSE LET a == CHOOSE i \in 1..Len(s) :
                      /\ s[i] \notin Whitespace
                      /\ \A j \in 1..(i - 1) : s[j] \in Whitespace
             b == CHOOSE i \in 1..Len(s) :
                      /\ s[i] \notin Whitespace
                      /\ \A j \in (i + 1)..Len(s) : s[j] \in Whitespace
         IN  SubSeq(s, a, b)

\* s[i:].startswith(pat), 1-based
StartsWithAt(s, pat, i) ==
    /\ i + Len(pat) - 1 <= Len(s)
    /\ SubSeq(s, i, i + Len(pat) - 1) = pat

\* pat in s
Contains(s, pat) == \E i \in 1..Len(s) : StartsWithAt(s, pat, i)

\* s.split(sep): the pieces between the non-overlapping occurrences of sep,
\* found left to right; empty pieces are kept
RECURSIVE StrSplit(_, _)
StrSplit(s, sep) ==
    LET occ == {i \in 1..Len(s) : StartsWithAt(s, sep, i)}
    IN  IF occ = {} THEN <<s>>
        ELSE LET i == Min(occ)
             IN  <<SubSeq(s, 1, i - 1)>>
                 \o StrSplit(SubSeq(s, i + Len(sep), Len(s)), sep)

RECURSIVE Concat(_)
Concat(ss) == IF ss = <<>> THEN <<>> ELSE Head(ss) \o Concat(Tail(ss))

\* ------------------------------------------------------------------------
\* TextSegmentProcessor.segment_by_emotion: splitting and chunk assembly
\* ------------------------------------------------------------------------

chunk_size == 500

\* the alternatives of the pattern of re.split, in the order of the pattern
PunctClass == {"F.", "F!", "F?", "F;", "F:", "F,", "F~"}

\* the length of the match of the pattern at position i of s, 0 for none:
\* the first alternative that matches wins, each one is greedy
MatchLen(s, i) ==
    IF RunLen(s, i, PunctClass) >= 1 THEN RunLen(s, i, PunctClass)
    ELSE IF RunLen(s, i, {"."}) >= 3 THEN RunLen(s, i, {"."})
    ELSE IF RunLen(s, i, {"!"}) >= 2 THEN RunLen(s, i, {"!"})
    ELSE IF RunLen(s, i, {"?"}) >= 2 THEN RunLen(s, i, {"?"})
    ELSE IF /\ i <= Len(s)
            /\ s[i] \in {"!", "?", "F.", "F!", "F?"}
            /\ RunLen(s, i + 1, {"F-", "F~"}) >= 1
         THEN 1 + RunLen(s, i + 1, {"F-", "F~"})
    ELSE 0

\* re.split(pattern, text) with the pattern's one capturing group: the
\* pieces between the matches and the matches themselves, empty pieces kept
RECURSIVE ReSplit(_)
ReSplit(s) ==
    LET m == {i \in 1..Len(s) : MatchLen(s, i) > 0}
    IN  IF m = {} THEN <<s>>
        ELSE LET i == Min(m)
                 n == MatchLen(s, i)
             IN  <<SubSeq(s, 1, i - 1), SubSeq(s, i, i + n - 1)>>
                 \o ReSplit(SubSeq(s, i + n, Len(s)))

\* [s.strip() for s in pieces if s.strip()]
RECURSIVE StripKeep(_)
StripKeep(pieces) ==
    IF pieces = <<>> THEN <<>>
    ELSE IF Strip(Head(pieces)) = <<>> THEN StripKeep(Tail(pieces))
    ELSE <<Strip(Head(pieces))>> \o StripKeep(Tail(pieces))

SplitSentences(text) == StripKeep(ReSplit(text))

transition_markers ==
    << <<"dan", "shi">>, <<"ran", "er">>, <<"bu", "guo">>, <<"ke", "shi">>,
       <<"que">>, <<"fan", "er">>, <<"xiang", "fan">> >>

\* the pieces of one sentence cut at a marker: a blank piece is dropped, a
\* piece after a cut gets the marker in front
RECURSIVE MarkerPieces(_, _, _)
MarkerPieces(parts, i, marker) ==
    IF i > Len(parts) THEN <<>>
    ELSE (IF Strip(parts[i]) = <<>> THEN <<>>
          ELSE IF i > 1 THEN <<marker \o Strip(parts[i])>>
          ELSE <<Strip(parts[i])>>)
         \o MarkerPieces(parts, i + 1, marker)

\* one pass of the marker loop over all sentences
RECURSIVE SplitAtMarker(_, _)
SplitAtMarker(sentences, marker) ==
    IF sentences = <<>> THEN <<>>
    ELSE (IF Contains(Head(sentences), marker)
          THEN MarkerPieces(StrSplit(Head(sentences), marker), 1, marker)
          ELSE <<Head(sentences)>>)
         \o SplitAtMarker(Tail(sentences), marker)

\* the marker loop: one pass per marker, in the order of the list
RECURSIVE SplitAtMarkers(_, _)
SplitAtMarkers(sentences, k) ==
    IF k > Len(transition_markers) THEN sentences
    ELSE SplitAtMarkers(SplitAtMarker(sentences, transition_markers[k]), k + 1)

SentenceUnits(text) == SplitAtMarkers(SplitSentences(text), 1)

\* the packing loop: [the chunks closed so far, current_chunk]
RECURSIVE Pack(_, _, _, _)
Pack(sentences, i, done, current_chunk) ==
    IF i > Len(sentences) THEN <<done, current_chunk>>
    ELSE IF Len(current_chunk) + Len(sentences[i]) > chunk_size
         THEN Pack(sentences, i + 1,
                   IF current_chunk # <<>> THEN Append(done, current_chunk)
                   ELSE done,
                   sentences[i])
         ELSE Pack(sentences, i + 1, done, current_chunk \o sentences[i])

\* the chunks that are classified: the last chunk is appended by both of
\* the two "if current_chunk" statements that follow the loop
AssembleChunks(sentences, text) ==
    LET p     == Pack(sentences, 1, <<>>, <<>>)
        once  == IF p[2] # <<>> THEN Append(p[1], p[2]) ELSE p[1]
        twice == IF p[2] # <<>> THEN Append(once, p[2]) ELSE once
    IN  IF twice = <<>> THEN <<text>> ELSE twice

Chunks(text) == AssembleChunks(SentenceUnits(text), text)

\* ------------------------------------------------------------------------
\* BiblicalReferenceDetector
\* ------------------------------------------------------------------------

\* bible_books with the variations, in the order of book_patterns, cut down
\* to the names written with the characters of the legend
book_patterns ==
    << <<"dan">>, <<"ke">>, <<"shu">>,
       <<"fei", "li", "bi", "shu">>, <<"fei", "li", "bi">>, <<"fei">> >>

Digits == {"0", "1", "2", "3", "4", "5", "6", "7", "8", "9"}

\* the length of the match of "book \s* [0-9]+ [::] [0-9]+ [)]?" at j, 0 for
\* none
RefTailLen(s, j, book) ==
    IF ~StartsWithAt(s, book, j) THEN 0
    ELSE LET a  == j + Len(book)
             ws == RunLen(s, a, Whitespace)
             d1 == RunLen(s, a + ws, Digits)
             c  == a + ws + d1
             d2 == RunLen(s, c + 1, Digits)
             e  == c + 1 + d2
         IN  IF d1 >= 1 /\ c <= Len(s) /\ s[c] \in {":", "F:"} /\ d2 >= 1
             THEN Len(book) + ws + d1 + 1 + d2
                  + (IF e <= Len(s) /\ s[e] \in {"F)", ")"} THEN 1 ELSE 0)
             ELSE 0

\* the length of the match of reference_pattern at position i, 0 for none
RefMatchLen(s, i) ==
    LET p    == IF i <= Len(s) /\ s[i] \in {"F(", "("} THEN 1 ELSE 0
        with == {RefTailLen(s, i + p, book_patterns[b]) :
                    b \in 1..Len(book_patterns)} \ {0}
        bare == {RefTailLen(s, i, book_patterns[b]) :
                    b \in 1..Len(book_patterns)} \ {0}
    IN  IF with # {} THEN p + Max(with)
        ELSE IF bare # {} THEN Max(bare)
        ELSE 0

\* re.finditer: the matches left to right, none overlapping another
RECURSIVE FindFrom(_, _)
FindFrom(s, i) ==
    IF i > Len(s) THEN <<>>
    ELSE LET n == RefMatchLen(s, i)
         IN  IF n = 0 THEN FindFrom(s, i + 1)
             ELSE <<SubSeq(s, i, i + n - 1)>> \o FindFrom(s, i + n)

find_references(text) == FindFrom(text, 1)

\* ------------------------------------------------------------------------
\* process_text: validation and normalisation
\* ------------------------------------------------------------------------

MIN_TEXT_LEN == 10

\* the 32 symbols of gbk_specific_chars of the normalisation step, as far
\* as the legend names them
NormGbkChars == {"G1", "G2", "G3", "G4", "G5", "G6"}

\* the 5 symbols of gbk_specific_chars of the per-segment step
SegmentGbkChars == {"G1", "G2", "G3", "G4", "G5"}

\* the traditional-to-simplified table, as far as the legend names it
TraditionalMap == [c \in {"SHUO"} |-> "shuo"]

\* str.encode() raises UnicodeEncodeError on a lone surrogate
Encodable(c) == c # "SUR"

\* a variant of NormalizeChar: the table is read in both directions
NormalizeCharBothWays(c) ==
    IF c = "SHUO" THEN "shuo" ELSE IF c = "shuo" THEN "SHUO" ELSE c

NormalizeChar(c) ==
    IF c \in NormGbkChars THEN c
    ELSE IF c \in DOMAIN TraditionalMap THEN TraditionalMap[c]
    ELSE c

\* the normalisation loop raises when a character that is neither reserved
\* nor in the table cannot be encoded
NormalizeRaises(s) ==
    \E i \in 1..Len(s) :
        /\ s[i] \notin NormGbkChars
        /\ s[i] \notin DOMAIN TraditionalMap
        /\ ~Encodable(s[i])

Normalize(s) == [i \in 1..Len(s) |-> NormalizeChar(s[i])]

\* "not text"
Falsy(inp) == IF inp.type = "str" THEN inp.chars = <<>> ELSE ~inp.truthy

\* what process_text does with its argument before the first external
\* call: "empty" (the empty result is returned), "raise" (ValueError), or
\* "go" with the normalised text
Validate(inp) ==
    IF Falsy(inp) THEN [kind |-> "empty"]
    ELSE IF inp.type # "str" THEN [kind |-> "raise", error |-> "not a string"]
    ELSE IF NormalizeRaises(inp.chars)
         THEN [kind |-> "raise", error |-> "encoding"]
    ELSE IF Len(Strip(Normalize(inp.chars))) < MIN_TEXT_LEN
         THEN [kind |-> "raise", error |-> "too short"]
    ELSE [kind |-> "go", text |-> Normalize(inp.chars)]

\* the result returned for a falsy argument
EmptyResult ==
    [segments |-> <<>>,
     usage |-> [total_tokens |-> 0, model |-> "text-embedding-ada-002",
                text_length |-> 0, segment_count |-> 0, cost_estimate |-> 0]]

hard_marker == <<"dan", "shi">>

\* ------------------------------------------------------------------------
\* Bounds of the model and the answers of the providers
\* ------------------------------------------------------------------------

\* the largest total_tokens one provider answer reports
MaxCallTokens == 1

\* the number of external calls of one invocation that meet a failure (an
\* analyze call that meets one may meet any number of them)
MaxFaultyCalls == 1

CallTokens == 1..MaxCallTokens

\* the closed set of labels of the classifier: 喜悦 愤怒 悲伤 惊讶 忧虑 恐惧
\* 期待 满意 焦虑
Labels ==
    {"xiyue", "fennu", "beishang", "jingya", "youlv", "kongju", "qidai",
     "manyi", "jiaolv"}

SCORE_MIN == 0

\* 5, in tenths
SCORE_MAX == 50

\* the JSON documents a classifier answers with: a dict with the fields
\* emotion and score, a dict without them, or a list; "pingjing" 平静 is a
\* label outside the closed set, 60 a score outside the range
EmotionDocs ==
    {[emotion |-> l, score |-> 30] : l \in {"xiyue", "youlv"}}
    \cup {[emotion |-> "unknown", score |-> 30],
          [emotion |-> "pingjing", score |-> 30],
          [emotion |-> "xiyue", score |-> 60],
          [explanation |-> "none"]}

ValidDoc(d) ==
    /\ DOMAIN d = {"emotion", "score"}
    /\ d.emotion \in Labels
    /\ d.score >= SCORE_MIN
    /\ d.score <= SCORE_MAX

\* what a chat-completion provider does with one request: it raises (a
\* connection error, a rate limit, a missing key, a status other than 200)
\* or the wait times out, and nothing is charged; or it answers and charges
\* tokens, with no content, with content that is no JSON, or with a document
ChatFailures ==
    {[kind |-> "raise", error |-> e, tokens |-> 0] : e \in {"api", "timeout"}}
    \cup {[kind |-> "answer", content |-> c, tokens |-> t] :
            c \in {"empty", "not json"}, t \in CallTokens}

ClassifierAnswers ==
    {[kind |-> "answer", content |-> "json", doc |-> d, tokens |-> t] :
        d \in EmotionDocs, t \in CallTokens}

ClassifierGood == {r \in ClassifierAnswers : ValidDoc(r.doc)}

ClassifierResponses == ChatFailures \cup ClassifierAnswers

Usage(t, m) == [total_tokens |-> t, model |-> m]

\* ------------------------------------------------------------------------
\* EmotionAnalyzer and retry_with_timeout
\* ------------------------------------------------------------------------

MAX_TOKENS == 16000

MAX_RETRIES == 5

\* tiktoken is no part of the repository: one token per character
estimate_tokens(t) == Len(t)

\* the dict analyze returns for a classification: the classification is
\* filed under the key "emotion" by this repository's EmotionAnalyzer;
\* key is a parameter because the callers of analyze read another one
AnalyzeReply(key, emotion_data, usage) ==
    (key :> emotion_data) @@ ("usage" :> usage)

Failed(e) == [ok |-> FALSE, error |-> e]

\* _make_openai_call: the answer is validated before anything is returned
make_openai_call(resp, key) ==
    IF resp.kind = "raise" THEN Failed(resp.error)
    ELSE IF resp.content = "empty" THEN Failed("empty response")
    ELSE IF resp.content = "not json" THEN Failed("invalid json")
    ELSE IF ~({"emotion", "score"} \subseteq DOMAIN resp.doc)
         THEN Failed("missing fields")
    ELSE IF resp.doc.emotion = "unknown" THEN Failed("unknown emotion")
    ELSE IF resp.doc.emotion \notin Labels THEN Failed("invalid emotion")
    ELSE IF resp.doc.score < SCORE_MIN \/ resp.doc.score > SCORE_MAX
         THEN Failed("invalid score")
    ELSE [ok |-> TRUE,
          value |-> AnalyzeReply(key,
                        [emotion |-> resp.doc.emotion, score |-> resp.doc.score],
                        Usage(resp.tokens, "gpt-3.5-turbo"))]

\* _make_deepseek_call: the parsed document is returned as it is
make_deepseek_call(resp, key) ==
    IF resp.kind = "raise" THEN Failed(resp.error)
    ELSE IF resp.content = "empty" THEN Failed("empty response")
    ELSE IF resp.content = "not json" THEN Failed("invalid json")
    ELSE [ok |-> TRUE,
          value |-> AnalyzeReply(key, resp.doc,
                                 Usage(resp.tokens, "deepseek-chat"))]

\* a variant of RetryDecision: one attempt more before it stops
RetryDecisionOneMore(attempt_number, call) ==
    IF call.ok THEN [kind |-> "return", value |-> call.value]
    ELSE IF attempt_number >= MAX_RETRIES + 1
         THEN [kind |-> "return", value |-> [error |-> call.error]]
    ELSE [kind |-> "retry"]

\* retry_with_timeout under tenacity's @retry, after attempt attempt_number
\* has ended as call: a result is returned; a failure is retried until
\* stop_after_attempt(MAX_RETRIES), and then retry_error_callback's value,
\* a dict that holds the text of the last error, is returned
RetryDecision(attempt_number, call) ==
    IF call.ok THEN [kind |-> "return", value |-> call.value]
    ELSE IF attempt_number >= MAX_RETRIES
         THEN [kind |-> "return", value |-> [error |-> call.error]]
    ELSE [kind |-> "retry"]

\* a variant of AnalyzeLadder: an error value of the wrapper starts the
\* next round on the primary, whatever retry_count is
AnalyzeLadderCycling(event, value, count) ==
    CASE event = "return" /\ "error" \in DOMAIN value -> "recurse"
      [] event = "return" -> "returned"
      [] event = "raise" -> IF count < 3 THEN "secondary" ELSE "raised"
      [] event = "secondary ok" -> "returned"
      [] event = "secondary failed" ->
            IF count < 2 THEN "recurse" ELSE "raised"

\* the try/except ladder of analyze: where control goes when the wrapper
\* around the primary returns value or raises, and when the call of the
\* secondary succeeds or fails; count is retry_count
AnalyzeLadder(event, value, count) ==
    CASE event = "return" -> "returned"
      [] event = "raise" -> IF count < 3 THEN "secondary" ELSE "raised"
      [] event = "secondary ok" -> "returned"
      [] event = "secondary failed" ->
            IF count < 2 THEN "recurse" ELSE "raised"

\* ------------------------------------------------------------------------
\* TextSegmentProcessor.segment_by_emotion: the merge of classified chunks
\* ------------------------------------------------------------------------

\* 喜悦 惊喜 期待 满意
positive_emotions == {"xiyue", "jingxi", "qidai", "manyi"}

\* 忧虑 悲伤 恐惧 愤怒 失望 焦虑
negative_emotions ==
    {"youlv", "beishang", "kongju", "fennu", "shiwang", "jiaolv"}

\* 平静 中性
neutral_emotions == {"pingjing", "zhongxing"}

\* 0.5, in tenths
SCORE_DELTA == 5

Abs(x) == IF x < 0 THEN -x ELSE x

HasMarker(chunk) ==
    \E k \in 1..Len(transition_markers) : Contains(chunk, transition_markers[k])

\* a variant of MergeBreak: a transition marker in the chunk is not looked
\* for
MergeBreakOnEmotion(cur, nxt, chunk) ==
    \/ nxt.emotion # cur.emotion
    \/ Abs(nxt.score - cur.score) > SCORE_DELTA

\* a variant of MergeBreak: a change of the label closes the segment only
\* where it crosses the polarity or ends in a neutral label
MergeBreakOnPolarity(cur, nxt, chunk) ==
    \/ Abs(nxt.score - cur.score) > SCORE_DELTA
    \/ (cur.emotion \in positive_emotions /\ nxt.emotion \in negative_emotions)
    \/ (nxt.emotion \in positive_emotions /\ cur.emotion \in negative_emotions)
    \/ (cur.emotion \notin neutral_emotions /\ nxt.emotion \in neutral_emotions)
    \/ HasMarker(chunk)

\* the condition under which chunk i closes the open segment
MergeBreak(cur, nxt, chunk) ==
    \/ nxt.emotion # cur.emotion
    \/ Abs(nxt.score - cur.score) > SCORE_DELTA
    \/ (cur.emotion \in positive_emotions /\ nxt.emotion \in negative_emotions)
    \/ (nxt.emotion \in positive_emotions /\ cur.emotion \in negative_emotions)
    \/ (cur.emotion \notin neutral_emotions /\ nxt.emotion \in neutral_emotions)
    \/ HasMarker(chunk)

\* a variant of MergeFrom: a chunk that is merged hands its classification
\* to the open segment
RECURSIVE MergeFromLatest(_, _, _, _, _, _)
MergeFromLatest(cs, es, i, segments, current_segment, current_emotion) ==
    IF i > Len(cs)
    THEN IF current_segment # <<>>
         THEN Append(segments, [text |-> current_segment,
                                emotion |-> current_emotion])
         ELSE segments
    ELSE IF MergeBreak(current_emotion, es[i], cs[i])
         THEN MergeFromLatest(cs, es, i + 1,
                        Append(segments, [text |-> current_segment,
                                          emotion |-> current_emotion]),
                        cs[i], es[i])
         ELSE MergeFromLatest(cs, es, i + 1, segments,
                        current_segment \o cs[i], es[i])

\* a variant of MergeFrom: the segment that is open when the loop ends is
\* not appended
RECURSIVE MergeFromClosedOnly(_, _, _, _, _, _)
MergeFromClosedOnly(cs, es, i, segments, current_segment, current_emotion) ==
    IF i > Len(cs) THEN segments
    ELSE IF MergeBreak(current_emotion, es[i], cs[i])
         THEN MergeFromClosedOnly(cs, es, i + 1,
                        Append(segments, [text |-> current_segment,
                                          emotion |-> current_emotion]),
                        cs[i], es[i])
         ELSE MergeFromClosedOnly(cs, es, i + 1, segments,
                        current_segment \o cs[i], current_emotion)

\* the merge loop from chunk i on, with the final segment appended
RECURSIVE MergeFrom(_, _, _, _, _, _)
MergeFrom(cs, es, i, segments, current_segment, current_emotion) ==
    IF i > Len(cs)
    THEN IF current_segment # <<>>
         THEN Append(segments, [text |-> current_segment,
                                emotion |-> current_emotion])
         ELSE segments
    ELSE IF MergeBreak(current_emotion, es[i], cs[i])
         THEN MergeFrom(cs, es, i + 1,
                        Append(segments, [text |-> current_segment,
                                          emotion |-> current_emotion]),
                        cs[i], es[i])
         ELSE MergeFrom(cs, es, i + 1, segments,
                        current_segment \o cs[i], current_emotion)

MergeSegments(cs, es) == MergeFrom(cs, es, 2, <<>>, cs[1], es[1])

\* the merge loop reads emotion and score of every classification as soon
\* as there are two chunks: a document without them raises
MergeRaises(cs, es) ==
    /\ Len(cs) >= 2
    /\ \E i \in 1..Len(es) : ~({"emotion", "score"} \subseteq DOMAIN es[i])

\* ------------------------------------------------------------------------
\* TextImprover, DuplicationDetector, HistoryLogger: answers and helpers
\* ------------------------------------------------------------------------

\* the JSON documents the rewriter answers with; improved_text names the
\* text: "same" the text it was given, "other" another text that holds
\* none of the characters of the first, "short" a text of one character
ImproverDocs ==
    {[improved_text |-> k, changes_made |-> "yes"] :
        k \in {"same", "other", "short"}}
    \cup {[changes_made |-> "yes"], [improved_text |-> "other"]}

ImproverAnswers ==
    {[kind |-> "answer", content |-> "json", doc |-> d, tokens |-> t] :
        d \in ImproverDocs, t \in CallTokens}

ImproverGood ==
    {r \in ImproverAnswers :
        /\ DOMAIN r.doc = {"improved_text", "changes_made"}
        /\ r.doc.improved_text \in {"same", "other"}}

ImproverResponses == ChatFailures \cup ImproverAnswers

OtherText == <<"gai", "xie", "hou", "de", "wen", "ben">>

ImprovedText(k, given) ==
    IF k = "same" THEN given ELSE IF k = "other" THEN OtherText ELSE <<"ok">>

MIN_IMPROVED_LEN == 5

Unbound == [bound |-> FALSE]

\* [c for c in text if c in gbk_specific_chars]
RECURSIVE CharsIn(_, _)
CharsIn(t, C) ==
    IF t = <<>> THEN <<>>
    ELSE (IF Head(t) \in C THEN <<Head(t)>> ELSE <<>>) \o CharsIn(Tail(t), C)

\* 0.85, in hundredths: the components of a vector are in tenths
SIMILARITY_THRESHOLD == 85

\* <<9, 4>> is similar to both of the others (0.90 and 0.91), which are
\* not similar to each other (0.70)
Embeddings == {<<10, 0>>, <<9, 4>>, <<7, 7>>}

EmbeddingResponses ==
    {[kind |-> "raise", tokens |-> 0]}
    \cup {[kind |-> "answer", vec |-> v, tokens |-> t] :
            v \in Embeddings, t \in CallTokens}

\* np.dot
Dot(u, v) == u[1] * v[1] + u[2] * v[2]

\* a variant of UniqueFrom: an item that was dropped still drops the later
\* items that are similar to it
RECURSIVE UniqueFromAnyEarlier(_, _, _, _)
UniqueFromAnyEarlier(embs, i, used, kept) ==
    IF i > Len(embs) THEN kept
    ELSE UniqueFromAnyEarlier(embs, i + 1,
            used \cup {j \in (i + 1)..Len(embs) :
                          Dot(embs[i], embs[j]) > SIMILARITY_THRESHOLD},
            IF i \in used THEN kept ELSE Append(kept, i))

\* the loop over the similarity matrix: the indices kept, from i on
RECURSIVE UniqueFrom(_, _, _, _)
UniqueFrom(embs, i, used, kept) ==
    IF i > Len(embs) THEN kept
    ELSE IF i \in used THEN UniqueFrom(embs, i + 1, used, kept)
    ELSE UniqueFrom(embs, i + 1,
            used \cup {j \in (i + 1)..Len(embs) :
                          Dot(embs[i], embs[j]) > SIMILARITY_THRESHOLD},
            Append(kept, i))

\* find_duplicates: the list of the texts kept
UniqueSegments(texts, embs) ==
    LET kept == UniqueFrom(embs, 1, {}, <<>>)
    IN  [k \in 1..Len(kept) |-> texts[kept[k]]]

LogFiles == {"tokenusage.json", "processingdetail.json", "finalresult.json"}

\* datetime.now().strftime("%Y%m%d_%H%M%S") at a log_run that follows the
\* writes h: the second of the call, counted from the first log_run; the
\* second of the log_run before it, or a later one
Timestamps(h) ==
    IF h = <<>> THEN {0}
    ELSE {h[Len(h)].folder, h[Len(h)].folder + 1}

\* ------------------------------------------------------------------------
\* The arguments process_text is called with
\* ------------------------------------------------------------------------

Str(cs) == [type |-> "str", truthy |-> cs # <<>>, chars |-> cs]

\* 5 characters
TextShort == <<"wo", "hen", "kai", "xin", "a">>

\* 9 characters between white space
TextPadded ==
    <<" ", "wo", "jin", "tian", "zhen", "de", "hen", "kai", "xin", "a", "\n">>

\* 10 characters
TextTen ==
    <<"wo", "jin", "tian", "zhen", "de", "hen", "kai", "xin", "a", "F.">>

\* 今天很开心！但是我忧虑（腓4:6）說㈠
TextMarked ==
    <<"jin", "tian", "hen", "kai", "xin", "F!", "dan", "shi", "wo", "you",
      "lv", "F(", "fei", "4", ":", "6", "F)", "SHUO", "G1">>

\* 但是 但是 但是 但是: 11 characters, and nothing but white space between the
\* marks
TextBlankParts ==
    <<"dan", "shi", " ", "dan", "shi", " ", "dan", "shi", " ", "dan", "shi">>

\* 是我今天很开心啊但但是: 11 characters, the part behind the mark is empty
TextDanShi ==
    <<"shi", "wo", "jin", "tian", "hen", "kai", "xin", "a", "dan", "dan",
      "shi">>

Inputs ==
    {[type |-> "NoneType", truthy |-> FALSE, chars |-> <<>>],
     [type |-> "int", truthy |-> TRUE, chars |-> <<>>],
     Str(<<>>), Str(<<" ", " ">>), Str(TextShort), Str(TextPadded),
     Str(TextTen \o <<"SUR">>), Str(TextTen), Str(TextMarked),
     Str(TextBlankParts), Str(TextDanShi)}

\* ------------------------------------------------------------------------
\* State
\* ------------------------------------------------------------------------

VARIABLES
    reply_key,          \* the key analyze files a classification under
    pc,                 \* where process_text is: idle, parts, classify,
                        \* improve, dedup, log, done
    outcome,            \* of process_text: none, returned, raised
    result,             \* the dict process_text returned
    error,              \* the error process_text raised
    input,              \* the argument of process_text
    text,               \* the normalised text
    parts,              \* text.split("但是")
    invocations,        \* the calls of process_text on this object so far
    tokens_before,      \* tp_token_usage when process_text was called
    pi,                 \* the index of the next part
    all_segments,
    total_tokens,
    tp_token_usage,     \* TextProcessor.token_usage["total_tokens"]
    sp_token_usage,     \* TextSegmentProcessor.token_usage["total_tokens"]
    dd_token_usage,     \* DuplicationDetector.token_usage["total_tokens"]
    chunks,             \* of the segment_by_emotion call in progress
    ci,                 \* the index of the chunk being classified
    emotions,
    sentences,          \* the sentence units of that call
    an_pc,              \* where analyze is: idle, call, primary, secondary,
                        \* returned, raised
    retry_count,
    attempts,           \* the attempts retry_with_timeout has made
    last_error,
    an_result,          \* what analyze returned
    seg_i,              \* the index of the segment being improved
    processed_segments,
    result_json,        \* the local of that name, Unbound before it is set
    improved_result,    \* the local of that name, Unbound before it is set
    embeddings,         \* of the find_duplicates call in progress
    dedup_result,       \* what find_duplicates returned, Unbound for none
    history,            \* the folder and the files of each log_run
    \* what follows records the run and is no state of the program
    charged,            \* the tokens the providers charged in this invocation
    faulty_calls,       \* the external calls that met a failure
    call_faulty,        \* the analyze call in progress has met a failure
    primary_rounds,     \* the rounds of retry_with_timeout of this analyze
    secondary_calls,    \* the calls of the secondary of this analyze
    exhausted,          \* a round of this analyze failed on every attempt
    rw_failed,          \* per processed segment: its rewrite failed
    n_calls             \* the external calls of this invocation, by kind

vCtl    == <<pc, outcome, result, error>>
vIn     == <<reply_key, input, text, parts, invocations, tokens_before>>
vLoop   == <<pi, all_segments, total_tokens>>
vUsage  == <<tp_token_usage, sp_token_usage, dd_token_usage>>
vSeg    == <<chunks, ci, emotions, sentences>>
vAn     == <<an_pc, retry_count, attempts, last_error, an_result>>
vAnRec  == <<call_faulty, primary_rounds, secondary_calls, exhausted>>
vImp    == <<seg_i, processed_segments, result_json, improved_result, rw_failed>>
vDedup  == <<embeddings, dedup_result>>
vRec    == <<charged, faulty_calls, n_calls>>

vars == <<vCtl, vIn, vLoop, vUsage, vSeg, vAn, vAnRec, vImp, vDedup,
          history, vRec>>

NoResult == [absent |-> TRUE]

NoCalls == [classifier |-> 0, rewriter |-> 0, embedding |-> 0, log |-> 0]

\* a new TextProcessor, before process_text is called on it
InitWith(key) ==
    /\ reply_key = key
    /\ pc = "idle" /\ outcome = "none" /\ result = NoResult /\ error = "none"
    /\ input = Str(<<>>) /\ text = <<>> /\ parts = <<>>
    /\ invocations = 0 /\ tokens_before = 0
    /\ pi = 1 /\ all_segments = <<>> /\ total_tokens = 0
    /\ tp_token_usage = 0 /\ sp_token_usage = 0 /\ dd_token_usage = 0
    /\ chunks = <<>> /\ ci = 1 /\ emotions = <<>> /\ sentences = <<>>
    /\ an_pc = "idle" /\ retry_count = 0 /\ attempts = 0
    /\ last_error = "none" /\ an_result = Unbound
    /\ seg_i = 1 /\ processed_segments = <<>>
    /\ result_json = Unbound /\ improved_result = Unbound
    /\ embeddings = <<>> /\ dedup_result = Unbound
    /\ history = <<>>
    /\ charged = 0 /\ faulty_calls = 0 /\ n_calls = NoCalls
    /\ call_faulty = FALSE /\ primary_rounds = 0 /\ secondary_calls = 0
    /\ exhausted = FALSE /\ rw_failed = <<>>

\* process_text ends by raising e
Raise(e) ==
    /\ pc' = "done" /\ outcome' = "raised" /\ error' = e
    /\ UNCHANGED result

\* a failure of the environment is met only while the bound allows it
MayFail(in_faulty_call) == in_faulty_call \/ faulty_calls < MaxFaultyCalls

\* ------------------------------------------------------------------------
\* process_text, step 1: validation, partition, segment_by_emotion
\* ------------------------------------------------------------------------

\* process_text is called: everything up to the loop over the parts
Invoke ==
    /\ pc = "idle"
    /\ \E inp \in Inputs :
        LET v == Validate(inp)
        IN  /\ input' = inp
            /\ CASE v.kind = "empty" ->
                       /\ pc' = "done" /\ outcome' = "returned"
                       /\ result' = EmptyResult
                       /\ UNCHANGED <<error, text, parts>>
                 [] v.kind = "raise" ->
                       /\ Raise(v.error)
                       /\ UNCHANGED <<text, parts>>
                 [] v.kind = "go" ->
                       /\ pc' = "parts"
                       /\ text' = v.text
                       /\ parts' = StrSplit(v.text, hard_marker)
                       /\ UNCHANGED <<outcome, result, error>>
    /\ invocations' = invocations + 1
    /\ tokens_before' = tp_token_usage
    /\ UNCHANGED <<reply_key, vLoop, vUsage, vSeg, vAn, vAnRec, vImp, vDedup,
                   history, vRec>>

\* the head of the loop over the parts: a blank part is skipped, another
\* one is handed to segment_by_emotion, which cuts it into chunks; after
\* the last part the run ends when no segment was made, and goes on to
\* step 2 otherwise
\* a variant of AfterParts: the run goes on without a segment
AfterPartsLenient(segments) == [kind |-> "go"]

\* if not all_segments: raise ValueError
AfterParts(segments) ==
    IF segments = <<>> THEN [kind |-> "raise", error |-> "no segments"]
    ELSE [kind |-> "go"]

NextPart ==
    /\ pc = "parts"
    /\ IF pi > Len(parts)
       THEN /\ IF AfterParts(all_segments).kind = "raise"
               THEN /\ Raise(AfterParts(all_segments).error)
                    /\ UNCHANGED <<tp_token_usage, seg_i>>
               ELSE /\ pc' = "improve"
                    /\ tp_token_usage' = tp_token_usage + total_tokens
                    /\ seg_i' = 1
                    /\ UNCHANGED <<outcome, result, error>>
            /\ UNCHANGED <<pi, vSeg, an_pc>>
       ELSE IF Strip(parts[pi]) = <<>>
       THEN /\ pi' = pi + 1
            /\ UNCHANGED <<vCtl, tp_token_usage, seg_i, vSeg, an_pc>>
       ELSE /\ sentences' = SentenceUnits(Strip(parts[pi]))
            /\ chunks' = Chunks(Strip(parts[pi]))
            /\ ci' = 1
            /\ emotions' = <<>>
            /\ pc' = "classify"
            /\ an_pc' = "call"
            /\ UNCHANGED <<outcome, result, error, pi, tp_token_usage, seg_i>>
    /\ UNCHANGED <<vIn, all_segments, total_tokens, sp_token_usage,
                   dd_token_usage, retry_count, attempts, last_error,
                   an_result, vAnRec, processed_segments, result_json,
                   improved_result, rw_failed, vDedup, history, vRec>>

\* analyze is called for chunk ci: the check of the token count
AnalyzeEnter ==
    /\ pc = "classify" /\ an_pc = "call"
    /\ retry_count' = 0
    /\ attempts' = 0
    /\ last_error' = "none"
    /\ an_result' = Unbound
    /\ call_faulty' = FALSE
    /\ secondary_calls' = 0
    /\ exhausted' = FALSE
    /\ IF estimate_tokens(chunks[ci]) > MAX_TOKENS
       THEN an_pc' = "raised" /\ primary_rounds' = 0
       ELSE an_pc' = "primary" /\ primary_rounds' = 1
    /\ UNCHANGED <<vCtl, vIn, vLoop, vUsage, vSeg, vImp, vDedup, history,
                   vRec>>

\* where analyze goes from the ladder's answer
AnalyzeGoes(next, value) ==
    /\ an_pc' = (IF next = "recurse" THEN "primary" ELSE next)
    /\ an_result' = (IF next = "returned" THEN value ELSE an_result)
    /\ retry_count' = (IF next = "recurse" THEN retry_count + 1
                       ELSE retry_count)
    /\ primary_rounds' = (IF next = "recurse" THEN primary_rounds + 1
                          ELSE primary_rounds)

\* one request to a classifier and all that analyze does with its outcome:
\* an attempt on the primary under retry_with_timeout, or the one call of
\* the secondary
ProviderCall ==
    /\ pc = "classify" /\ an_pc \in {"primary", "secondary"}
    /\ \E resp \in ClassifierResponses :
        /\ resp \notin ClassifierGood => MayFail(call_faulty)
        /\ call_faulty' = (call_faulty \/ resp \notin ClassifierGood)
        /\ faulty_calls' =
              (IF resp \notin ClassifierGood /\ ~call_faulty
               THEN faulty_calls + 1 ELSE faulty_calls)
        /\ charged' = charged + resp.tokens
        /\ n_calls' = [n_calls EXCEPT !.classifier = @ + 1]
        /\ IF an_pc = "primary"
           THEN LET call == make_openai_call(resp, reply_key)
                    d    == RetryDecision(attempts + 1, call)
                    val  == IF d.kind = "return" THEN d.value ELSE Unbound
                IN  /\ last_error' = (IF call.ok THEN last_error
                                      ELSE call.error)
                    /\ exhausted' = (exhausted \/ (~call.ok /\ d.kind # "retry"))
                    /\ UNCHANGED secondary_calls
                    /\ IF d.kind = "retry"
                       THEN /\ attempts' = attempts + 1
                            /\ UNCHANGED <<an_pc, an_result, retry_count,
                                           primary_rounds>>
                       ELSE /\ attempts' = 0
                            /\ AnalyzeGoes(AnalyzeLadder(d.kind, val,
                                                         retry_count), val)
           ELSE LET call == make_deepseek_call(resp, reply_key)
                    val  == IF call.ok THEN call.value ELSE Unbound
                IN  /\ last_error' = (IF call.ok THEN last_error
                                      ELSE call.error)
                    /\ secondary_calls' = secondary_calls + 1
                    /\ attempts' = 0
                    /\ UNCHANGED exhausted
                    /\ AnalyzeGoes(AnalyzeLadder(IF call.ok THEN "secondary ok"
                                                 ELSE "secondary failed",
                                                 val, retry_count), val)
    /\ UNCHANGED <<vCtl, vIn, vLoop, vUsage, vSeg, vImp, vDedup, history>>

\* a variant of Extend: the new items go in front
ExtendInFront(list, items) == items \o list

\* list.extend(items)
Extend(list, items) == list \o items

\* a variant of OnPartError: the error of segment_by_emotion leaves
\* process_text
OnPartErrorRaising(e) == [kind |-> "raise", error |-> e]

\* except Exception as e: the error is logged, "continue"
OnPartError(e) == [kind |-> "continue"]

\* the segment_by_emotion call in progress raises: process_text logs the
\* error and goes on with the next part
PartFails ==
    LET handled == OnPartError("segment_by_emotion")
    IN  /\ IF handled.kind = "raise"
           THEN /\ Raise(handled.error)
                /\ UNCHANGED pi
           ELSE /\ pc' = "parts"
                /\ pi' = pi + 1
                /\ UNCHANGED <<outcome, result, error>>
        /\ UNCHANGED <<all_segments, total_tokens>>

\* analyze has ended for chunk ci: segment_by_emotion reads "result" and
\* the usage of what it returned; after the last chunk it merges the
\* chunks into segments and returns them with the usage of its object
Classified ==
    /\ pc = "classify" /\ an_pc \in {"returned", "raised"}
    /\ an_pc' = (IF an_pc = "returned" /\ "result" \in DOMAIN an_result
                    /\ ci < Len(chunks)
                 THEN "call" ELSE "idle")
    /\ IF an_pc = "raised" \/ "result" \notin DOMAIN an_result
       THEN /\ PartFails
            /\ UNCHANGED <<sp_token_usage, ci, emotions>>
       ELSE LET es == Append(emotions, an_result["result"])
                su == sp_token_usage + an_result["usage"].total_tokens
            IN  /\ emotions' = es
                /\ sp_token_usage' = su
                /\ IF ci < Len(chunks)
                   THEN /\ ci' = ci + 1
                        /\ UNCHANGED <<vCtl, pi, all_segments, total_tokens>>
                   ELSE /\ UNCHANGED ci
                        /\ IF MergeRaises(chunks, es)
                           THEN PartFails
                           ELSE /\ pc' = "parts"
                                /\ pi' = pi + 1
                                /\ UNCHANGED <<outcome, result, error>>
                                /\ all_segments' =
                                      Extend(all_segments,
                                             MergeSegments(chunks, es))
                                /\ total_tokens' = total_tokens + su
    /\ UNCHANGED <<vIn, tp_token_usage, dd_token_usage, chunks, sentences,
                   retry_count, attempts, last_error, an_result, vAnRec, vImp,
                   vDedup, history, vRec>>

\* ------------------------------------------------------------------------
\* process_text, step 2: the rewrite of every segment
\* ------------------------------------------------------------------------

\* the rewriter call ends in the except branch of process_text
RewriteFails(resp) ==
    \/ resp.kind = "raise"
    \/ resp.content \in {"empty", "not json"}

\* improve_text: the content and the usage of an answer, or it raises
improve_text(resp) ==
    IF resp.kind = "raise" THEN Failed(resp.error)
    ELSE IF resp.content = "empty" THEN Failed("empty response")
    ELSE [ok |-> TRUE,
          value |-> [result |-> resp,
                     usage |-> Usage(resp.tokens, "gpt-3.5-turbo")]]

\* the locals improved_result and result_json after the try block, from
\* what they were before it
ImprovedResultAfter(resp, before) ==
    IF improve_text(resp).ok THEN improve_text(resp).value ELSE before

ResultJsonAfter(resp, before) ==
    IF improve_text(resp).ok /\ resp.content = "json" THEN resp.doc ELSE before

\* a variant of ImprovedTextAfter: the reserved symbols of the segment are
\* not appended
ImprovedTextAsRewritten(resp, segment_text) ==
    LET parsed == improve_text(resp).ok /\ resp.content = "json"
                  /\ "improved_text" \in DOMAIN resp.doc
        given  == IF parsed
                  THEN ImprovedText(resp.doc.improved_text, segment_text)
                  ELSE segment_text
    IN  IF Len(Strip(given)) < MIN_IMPROVED_LEN THEN segment_text ELSE given

\* improved_text after the try block and the append of the reserved symbols
ImprovedTextAfter(resp, segment_text) ==
    LET parsed == improve_text(resp).ok /\ resp.content = "json"
                  /\ "improved_text" \in DOMAIN resp.doc
        given  == IF parsed
                  THEN ImprovedText(resp.doc.improved_text, segment_text)
                  ELSE segment_text
        kept   == IF Len(Strip(given)) < MIN_IMPROVED_LEN
                  THEN segment_text ELSE given
        segment_gbk_chars == CharsIn(segment_text, SegmentGbkChars)
    IN  IF segment_gbk_chars # <<>>
        THEN kept \o <<" ">> \o segment_gbk_chars
        ELSE kept

\* a variant of References: the references are looked for in the text the
\* rewriter has returned
ReferencesOfImproved(segment_text, improved_text) ==
    find_references(improved_text)

\* references = self.biblical_detector.find_references(segment["text"]),
\* ahead of the rewriter call
References(segment_text, improved_text) == find_references(segment_text)

\* one turn of the loop over the segments: the references are detected,
\* the rewriter is called, the segment is appended and the usage added
ImproveSegment ==
    /\ pc = "improve"
    /\ seg_i <= Len(all_segments)
    /\ \E resp \in ImproverResponses :
        LET segment == all_segments[seg_i]
            ir == ImprovedResultAfter(resp, improved_result)
            rj == ResultJsonAfter(resp, result_json)
        IN  /\ resp \notin ImproverGood => MayFail(FALSE)
            /\ faulty_calls' = (IF resp \notin ImproverGood
                                THEN faulty_calls + 1 ELSE faulty_calls)
            /\ charged' = charged + resp.tokens
            /\ n_calls' = [n_calls EXCEPT !.rewriter = @ + 1]
            /\ improved_result' = ir
            /\ result_json' = rj
            /\ IF rj = Unbound
               THEN /\ Raise("NameError result_json")
                    /\ UNCHANGED <<processed_segments, rw_failed, seg_i,
                                   tp_token_usage>>
               ELSE IF "changes_made" \notin DOMAIN rj
               THEN /\ Raise("KeyError changes_made")
                    /\ UNCHANGED <<processed_segments, rw_failed, seg_i,
                                   tp_token_usage>>
               ELSE /\ processed_segments' =
                          Append(processed_segments,
                                 [text |-> ImprovedTextAfter(resp, segment.text),
                                  emotion |-> segment.emotion,
                                  changes |-> rj.changes_made,
                                  biblical_references |->
                                      References(segment.text,
                                          ImprovedTextAfter(resp,
                                                            segment.text))])
                    /\ rw_failed' = Append(rw_failed, RewriteFails(resp))
                    /\ tp_token_usage' =
                          tp_token_usage + ir.usage.total_tokens
                    /\ seg_i' = seg_i + 1
                    /\ IF seg_i = Len(all_segments)
                       THEN /\ pc' = "dedup"
                            /\ UNCHANGED <<outcome, result, error>>
                       ELSE UNCHANGED vCtl
    /\ embeddings' = <<>>
    /\ UNCHANGED <<vIn, vLoop, sp_token_usage, dd_token_usage, vSeg, vAn,
                   vAnRec, dedup_result, history>>

\* ------------------------------------------------------------------------
\* process_text, step 3: find_duplicates, the result, the history log
\* ------------------------------------------------------------------------

\* a variant of OnDedupError: the error of find_duplicates leaves
\* process_text
OnDedupErrorRaising(e) == [kind |-> "raise", error |-> e]

\* except Exception as e: the error is logged and process_text goes on with
\* the segments it has
OnDedupError(e) == [kind |-> "continue"]

\* one get_embedding call of find_duplicates; after the last one the list
\* of the texts kept is returned to process_text, which expects a dict and
\* leaves processed_segments as it is; a call that raises ends
\* find_duplicates, and process_text logs the error and goes on
Embed ==
    /\ pc = "dedup"
    /\ \E resp \in EmbeddingResponses :
        /\ resp.kind = "raise" => MayFail(FALSE)
        /\ faulty_calls' = (IF resp.kind = "raise" THEN faulty_calls + 1
                            ELSE faulty_calls)
        /\ charged' = charged + resp.tokens
        /\ n_calls' = [n_calls EXCEPT !.embedding = @ + 1]
        /\ dd_token_usage' = dd_token_usage + resp.tokens
        /\ IF resp.kind = "raise"
           THEN LET handled == OnDedupError("embedding_error")
                IN  /\ IF handled.kind = "raise"
                       THEN Raise(handled.error)
                       ELSE /\ pc' = "log"
                            /\ UNCHANGED <<outcome, result, error>>
                    /\ UNCHANGED <<embeddings, dedup_result>>
           ELSE LET embs == Append(embeddings, resp.vec)
                IN  /\ embeddings' = embs
                    /\ UNCHANGED <<outcome, result, error>>
                    /\ IF Len(embs) = Len(processed_segments)
                       THEN /\ pc' = "log"
                            /\ dedup_result' =
                                  UniqueSegments(
                                      [k \in 1..Len(processed_segments) |->
                                          processed_segments[k].text], embs)
                       ELSE UNCHANGED <<pc, dedup_result>>
    /\ UNCHANGED <<vIn, vLoop, tp_token_usage, sp_token_usage, vSeg, vAn,
                   vAnRec, vImp, history>>

\* sum(len(s["text"]) for s in segments)
RECURSIVE ProcessedLength(_)
ProcessedLength(segments) ==
    IF segments = <<>> THEN 0
    ELSE Len(Head(segments).text) + ProcessedLength(Tail(segments))

\* round(total_tokens * 0.002 / 1000, 6), in millionths
CostEstimate(tokens) == 2 * tokens

\* len(unique_segments) < len(processed_segments)
\*     if 'unique_segments' in locals() else False
\* for what find_duplicates gave ("list", or "unbound" when it raised; a
\* "dict" it never gives): unique_segments is bound in the branch of
\* isinstance(dedup_result, dict) only, where processed_segments is bound
\* anew to unique_segments before the lengths are compared
HasDuplicatesByDedup(kind, n_unique, n_processed) ==
    kind = "list" /\ n_unique < n_processed

HasDuplicates(kind, n_unique, n_processed) ==
    IF kind = "dict" THEN n_unique < n_unique ELSE FALSE

\* the result is built, log_run writes the run folder or raises, the
\* summary is added and the result returned
Finish ==
    /\ pc = "log"
    /\ \E logged \in BOOLEAN, timestamp \in Timestamps(history) :
        /\ ~logged => MayFail(FALSE)
        /\ faulty_calls' = (IF logged THEN faulty_calls ELSE faulty_calls + 1)
        /\ history' = Append(history,
                             [folder |-> timestamp,
                              files |-> IF logged THEN LogFiles
                                        ELSE {"error.json"}])
        /\ result' =
              [segments |-> processed_segments,
               usage |-> [total_tokens |-> tp_token_usage,
                          model |-> "gpt-3.5-turbo",
                          text_length |-> Len(text),
                          segment_count |-> Len(processed_segments),
                          cost_estimate |-> CostEstimate(tp_token_usage)],
               log_files |-> IF logged THEN LogFiles ELSE {},
               summary |-> [original_length |-> Len(text),
                            processed_length |->
                                ProcessedLength(processed_segments),
                            segment_count |-> Len(processed_segments),
                            has_duplicates |->
                                IF Len(embeddings) = Len(processed_segments)
                                THEN HasDuplicates("list", Len(dedup_result),
                                         Len(processed_segments))
                                ELSE HasDuplicates("unbound", 0,
                                         Len(processed_segments)),
                            processing_status |-> "success"]]
    /\ pc' = "done"
    /\ outcome' = "returned"
    /\ n_calls' = [n_calls EXCEPT !.log = @ + 1]
    /\ UNCHANGED <<error, vIn, vLoop, vUsage, vSeg, vAn, vAnRec, vImp, vDedup,
                   charged>>

\* ------------------------------------------------------------------------
\* Specifications
\* ------------------------------------------------------------------------

\* the program as it is: EmotionAnalyzer files a classification under
\* "emotion"
Init == InitWith("emotion")

Next ==
    \/ Invoke
    \/ NextPart
    \/ AnalyzeEnter
    \/ ProviderCall
    \/ Classified

Spec == Init /\ [][Next]_vars

\* the steps of process_text behind segment_by_emotion, run with an
\* analyzer that files a classification under "result", the key
\* segment_by_emotion and the speech endpoint read
InitResultKey == InitWith("result")

NextPipeline ==
    \/ Invoke
    \/ NextPart
    \/ AnalyzeEnter
    \/ ProviderCall
    \/ Classified
    \/ ImproveSegment
    \/ Embed
    \/ Finish

SpecPipeline == InitResultKey /\ [][NextPipeline]_vars

\* ------------------------------------------------------------------------
\* Properties
\* ------------------------------------------------------------------------

\* process_text has returned a result after external calls were made
ReturnedAfterCalls ==
    /\ outcome = "returned"
    /\ n_calls.classifier > 0

C2_SecondaryAfterExhaustion ==
    (exhausted /\ an_pc \in {"returned", "raised"}) => secondary_calls >= 1

\* analyze has returned after five answers of the primary with the label
\* "unknown", and the secondary was never called
C2_ReturnedWithoutSecondary ==
    /\ exhausted
    /\ an_pc = "returned"
    /\ last_error = "unknown emotion"
    /\ secondary_calls = 0

\* C3: whatever analyze returns without raising is a classification with
\* a label of the closed set and a score in [0,5].
C3_ReturnedIsClassification ==
    an_pc = "returned" =>
        /\ reply_key \in DOMAIN an_result
        /\ ValidDoc(an_result[reply_key])

\* analyze has returned a dict that holds an error text and no
\* classification
C3_ReturnedErrorValue ==
    /\ an_pc = "returned"
    /\ "error" \in DOMAIN an_result
    /\ reply_key \notin DOMAIN an_result

\* C4: one analyze call makes at most 3 rounds on the primary and at most
\* 3 calls of the secondary, and when a round is exhausted and analyze
\* has ended, it has ended in an error (raised, or an error value) and is
\* not on a provider again.
C4_BoundedCycles ==
    /\ primary_rounds <= 3
    /\ secondary_calls <= 3
    /\ (exhausted /\ an_pc \notin {"primary", "secondary"}) =>
          (an_pc = "raised" \/ "error" \in DOMAIN an_result)
    /\ (exhausted /\ pc = "parts") => an_pc = "idle"

\* the chunk of an exhausted analyze call has failed: its part was given
\* up and no segment was made of it
C4_ExhaustedChunkFailed ==
    /\ exhausted
    /\ an_pc = "idle"
    /\ pc = "parts"
    /\ pi = 2
    /\ all_segments = <<>>
    /\ primary_rounds = 1

\* C5: retry_with_timeout makes at most MAX_RETRIES attempts, and when
\* every attempt has failed it returns a value that holds the last error:
\* it does not raise.
C5_BoundedAttemptsErrorValue ==
    /\ attempts < MAX_RETRIES
    /\ exhausted =>
          /\ an_result = [error |-> last_error]
          /\ an_pc # "raised"
          /\ secondary_calls = 0

\* the wrapper has returned the error value after MAX_RETRIES failures,
\* the last one a timeout
C5_ErrorValueReturned ==
    /\ exhausted
    /\ an_pc = "returned"
    /\ last_error = "timeout"
    /\ an_result = [error |-> "timeout"]

\* every segment of a result holds a text, an emotion with a score in
\* [0,5], changes and a list of references
SegmentsComplete(segments) ==
    \A k \in 1..Len(segments) :
        /\ {"text", "emotion", "changes", "biblical_references"}
              \subseteq DOMAIN segments[k]
        /\ segments[k].emotion.score >= SCORE_MIN
        /\ segments[k].emotion.score <= SCORE_MAX

\* C6: for a valid input, when every external call succeeds, process_text
\* returns a result with at least one segment, each segment complete.
C6_ValidInputReturnsSegments ==
    (pc = "done" /\ Validate(input).kind = "go" /\ faulty_calls = 0) =>
        /\ outcome = "returned"
        /\ result.segments # <<>>
        /\ SegmentsComplete(result.segments)

\* process_text has raised on the 10-character input although every call
\* it made succeeded
C6_ValidInputRaised ==
    /\ pc = "done"
    /\ input = Str(TextTen)
    /\ faulty_calls = 0
    /\ n_calls.classifier > 0
    /\ outcome = "raised"
    /\ error = "no segments"

\* the argument is a string of fewer than 10 characters after trimming
BelowMinimum(inp) ==
    /\ inp.type = "str"
    /\ Len(Strip(inp.chars)) < MIN_TEXT_LEN

\* C7: on a string of fewer than 10 characters after trimming process_text
\* raises a validation error before any external call and any history
\* log; a string of exactly 10 characters passes validation.
C7_ShortInputRaisesFirst ==
    /\ (pc = "done" /\ BelowMinimum(input)) =>
          /\ outcome = "raised"
          /\ error = "too short"
          /\ n_calls = NoCalls
          /\ history = <<>>
    /\ (pc # "idle" /\ input = Str(TextTen)) =>
          error \notin {"too short", "not a string", "encoding"}

\* the 5-character input was refused before any call
C7_FiveCharactersRefused ==
    /\ pc = "done"
    /\ input = Str(TextShort)
    /\ outcome = "raised"
    /\ error = "too short"
    /\ n_calls = NoCalls

\* C8: on an empty input and on a value that is no string process_text
\* raises a validation error and returns no result.
C8_EmptyOrNonStringRaises ==
    (pc = "done" /\ (input.type # "str" \/ input.chars = <<>>)) =>
        /\ outcome = "raised"
        /\ result = NoResult

\* the empty string was answered with the empty result
C8_EmptyInputReturned ==
    /\ pc = "done"
    /\ input = Str(<<>>)
    /\ outcome = "returned"
    /\ result = EmptyResult

MaxSegments == 4

\* n processed segments with texts that differ from each other
DedupSegments(n) ==
    [k \in 1..n |-> [text |-> <<"seg", ToString(k)>>,
                     emotion |-> [emotion |-> "xiyue", score |-> 30],
                     changes |-> "yes",
                     biblical_references |-> <<>>]]

\* process_text is about to call find_duplicates with a list of segments
InitDedup ==
    /\ reply_key = "result"
    /\ pc = "dedup" /\ outcome = "none" /\ result = NoResult /\ error = "none"
    /\ input = Str(<<>>) /\ text = <<>> /\ parts = <<>>
    /\ invocations = 0 /\ tokens_before = 0
    /\ pi = 1 /\ all_segments = <<>> /\ total_tokens = 0
    /\ tp_token_usage = 0 /\ sp_token_usage = 0 /\ dd_token_usage = 0
    /\ chunks = <<>> /\ ci = 1 /\ emotions = <<>> /\ sentences = <<>>
    /\ an_pc = "idle" /\ retry_count = 0 /\ attempts = 0
    /\ last_error = "none" /\ an_result = Unbound
    /\ \E n \in 1..MaxSegments :
          /\ processed_segments = DedupSegments(n)
          /\ rw_failed = [k \in 1..n |-> FALSE]
          /\ seg_i = n + 1
    /\ result_json = Unbound /\ improved_result = Unbound
    /\ embeddings = <<>> /\ dedup_result = Unbound
    /\ history = <<>>
    /\ charged = 0 /\ faulty_calls = 0 /\ n_calls = NoCalls
    /\ call_faulty = FALSE /\ primary_rounds = 0 /\ secondary_calls = 0
    /\ exhausted = FALSE

NextDedup == Embed

SpecDedup == InitDedup /\ [][NextDedup]_vars

\* find_duplicates has returned: every get_embedding call has answered
DedupReturned ==
    /\ pc \in {"log", "done"}
    /\ Len(embeddings) = Len(processed_segments)

\* the indices of the segments whose text find_duplicates returned
KeptIndices ==
    {i \in 1..Len(processed_segments) :
        \E k \in 1..Len(dedup_result) :
            dedup_result[k] = processed_segments[i].text}

Similar(i, j) == Dot(embeddings[i], embeddings[j]) > SIMILARITY_THRESHOLD

\* C11: what find_duplicates returns is a subsequence of its input in the
\* order of the input; the first item is kept; an item is dropped exactly
\* when it is similar (above 0.85) to a kept item before it; so no two
\* kept items are similar.
C11_StableGreedySubsequence ==
    DedupReturned =>
        /\ \A k \in 1..Len(dedup_result) :
              \E i \in KeptIndices :
                  /\ dedup_result[k] = processed_segments[i].text
                  /\ Cardinality({h \in KeptIndices : h <= i}) = k
        /\ Len(dedup_result) = Cardinality(KeptIndices)
        /\ 1 \in KeptIndices
        /\ \A j \in 1..Len(processed_segments) :
              j \notin KeptIndices <=>
                  \E i \in KeptIndices : i < j /\ Similar(i, j)
        /\ \A i, j \in KeptIndices : i < j => ~Similar(i, j)

\* find_duplicates has dropped the second of three items and kept the
\* third, which is similar to the second and not to the first
C11_DroppedAndKept ==
    /\ DedupReturned
    /\ Len(processed_segments) = 3
    /\ KeptIndices = {1, 3}
    /\ Similar(2, 3)


MaxTextLen == 4

\* the largest number of sentences of a text of long sentences
MaxUnits == 3

\* the longest list of chunks that is classified in every possible way
MaxVaried == 4

\* short texts of letters, white space, a full stop and the marker 却, and
\* two texts with markers that overlap (相反而, 可是但是)
ShortTexts ==
    UNION {[1..n -> {"a", "b", " ", "F.", "que"}] : n \in 1..MaxTextLen}
    \cup {<<"a", "xiang", "fan", "er", "b">>,
          <<"ke", "shi", "dan", "shi", "a">>}

LetterRun(len, c) == [j \in 1..len |-> c]

\* a text of sentences of the given numbers of letters, each closed by a
\* full stop
RECURSIVE LongText(_, _)
LongText(lens, k) ==
    IF k > Len(lens) THEN <<>>
    ELSE LetterRun(lens[k], <<"a", "b", "c", "d">>[k]) \o <<"F.">>
         \o LongText(lens, k + 1)

\* texts whose sentences are long against chunk_size
LongTexts ==
    {LongText(lens, 1) :
        lens \in UNION {[1..n -> {chunk_size \div 2, chunk_size - 100,
                                  chunk_size + 1}] : n \in 1..MaxUnits}}

\* the number of sentences of chunk_size characters that exceed MAX_TOKENS
LargeCount == MAX_TOKENS \div chunk_size + 1

\* a text of LargeCount sentences of chunk_size characters, the full stop
\* included
LargeText ==
    [j \in 1..(chunk_size * LargeCount) |->
        IF j % chunk_size = 0 THEN "F." ELSE "a"]

\* a text of chunk_size + 1 characters: white space between two markers 却
MarkerText == <<"que">> \o LetterRun(chunk_size - 1, " ") \o <<"que">>

\* the classifications of the chunks of one text
SegmentEmotions ==
    {[emotion |-> "xiyue", score |-> 30], [emotion |-> "xiyue", score |-> 35],
     [emotion |-> "xiyue", score |-> 40], [emotion |-> "youlv", score |-> 30],
     [emotion |-> "pingjing", score |-> 30]}

EmotionLists(n) ==
    IF n <= MaxVaried THEN [1..n -> SegmentEmotions]
    ELSE {[k \in 1..n |-> [emotion |-> "xiyue", score |-> 30]]}

\* segment_by_emotion is called with a text
InitSegment ==
    /\ reply_key = "result"
    /\ outcome = "none" /\ result = NoResult /\ error = "none"
    /\ input = Str(<<>>) /\ parts = <<>>
    /\ invocations = 0 /\ tokens_before = 0
    /\ pc = "split"
    /\ text \in ShortTexts \cup LongTexts \cup {LargeText, MarkerText}
    /\ sentences = <<>>
    /\ pi = 1 /\ all_segments = <<>> /\ total_tokens = 0
    /\ tp_token_usage = 0 /\ sp_token_usage = 0 /\ dd_token_usage = 0
    /\ chunks = <<>> /\ ci = 1 /\ emotions = <<>>
    /\ an_pc = "idle" /\ retry_count = 0 /\ attempts = 0
    /\ last_error = "none" /\ an_result = Unbound
    /\ seg_i = 1 /\ processed_segments = <<>>
    /\ result_json = Unbound /\ improved_result = Unbound
    /\ embeddings = <<>> /\ dedup_result = Unbound
    /\ history = <<>>
    /\ charged = 0 /\ faulty_calls = 0 /\ n_calls = NoCalls
    /\ call_faulty = FALSE /\ primary_rounds = 0 /\ secondary_calls = 0
    /\ exhausted = FALSE /\ rw_failed = <<>>

vStage == <<outcome, result, error, vIn, pi, total_tokens, vUsage, ci, vAn,
            vAnRec, vImp, vDedup, history, vRec>>

\* re.split and the marker loop
SplitText ==
    /\ pc = "split"
    /\ sentences' = SentenceUnits(text)
    /\ pc' = "assemble"
    /\ UNCHANGED <<vStage, chunks, emotions, all_segments>>

\* the packing loop and what follows it
AssembleText ==
    /\ pc = "assemble"
    /\ chunks' = AssembleChunks(sentences, text)
    /\ pc' = "emotions"
    /\ UNCHANGED <<vStage, sentences, emotions, all_segments>>

\* the loop over the chunks, every chunk classified
ClassifyChunks ==
    /\ pc = "emotions"
    /\ \E es \in EmotionLists(Len(chunks)) : emotions' = es
    /\ pc' = "merge"
    /\ UNCHANGED <<vStage, sentences, chunks, all_segments>>

\* the merge loop: the segments segment_by_emotion returns
MergeChunks ==
    /\ pc = "merge"
    /\ all_segments' = MergeSegments(chunks, emotions)
    /\ pc' = "segmented"
    /\ UNCHANGED <<vStage, sentences, chunks, emotions>>

NextSegment ==
    \/ SplitText
    \/ AssembleText
    \/ ClassifyChunks
    \/ MergeChunks

SpecSegment == InitSegment /\ [][NextSegment]_vars

NoWhitespace(s) == SelectSeq(s, LAMBDA c : c \notin Whitespace)

\* C14: the sentence units of the splitting step, concatenated in order,
\* are the text with white space ignored.
C14_UnitsRebuildText ==
    pc \in {"assemble", "emotions", "merge", "segmented"} =>
        NoWhitespace(Concat(sentences)) = NoWhitespace(text)

\* a text that ends in the marker 却 was split into units without it
C14_TrailingMarkerLost ==
    /\ pc = "assemble"
    /\ text = <<"a", "que">>
    /\ sentences = << <<"a">> >>

\* C15: every chunk of the assembling step is at most chunk_size long or
\* is one sentence unit that alone is longer.
C15_ChunksWithinLimit ==
    pc \in {"emotions", "merge", "segmented"} =>
        \A k \in 1..Len(chunks) :
            \/ Len(chunks[k]) <= chunk_size
            \/ \E u \in 1..Len(sentences) : sentences[u] = chunks[k]

\* the text of markers and white space has no unit and is one chunk above
\* chunk_size
C15_WholeTextChunk ==
    /\ pc = "emotions"
    /\ sentences = <<>>
    /\ chunks = <<text>>
    /\ Len(text) > chunk_size

\* the number of characters in front of chunk i
ChunkOffset(i) == Len(Concat(SubSeq(chunks, 1, i - 1)))

\* the number of characters in front of segment k
SegmentOffset(k) ==
    Len(Concat([h \in 1..(k - 1) |-> all_segments[h].text]))

\* C16: the emotion of every segment of segment_by_emotion is the
\* classification of the first chunk of that segment.
C16_EmotionOfFirstChunk ==
    pc = "segmented" =>
        \A k \in 1..Len(all_segments) :
            \E i \in 1..Len(chunks) :
                /\ ChunkOffset(i) = SegmentOffset(k)
                /\ all_segments[k].emotion = emotions[i]

\* a segment of two chunks whose classifications differ in the score
C16_MergedUnequalScores ==
    /\ pc = "segmented"
    /\ Len(chunks) = 2
    /\ Len(all_segments) = 1
    /\ emotions[1].score # emotions[2].score
    /\ all_segments[1].emotion = emotions[1]

\* the parts of the text on the sides of 但是 that are not blank
NonBlankParts == {p \in 1..Len(parts) : Strip(parts[p]) # <<>>}

\* C17: for an input with text on both sides of 但是 whose parts are all
\* classified, process_text returns at least 2 segments, and every
\* segment was made of one side only.
C17_BoundaryAtHardMarker ==
    (pc = "done" /\ Cardinality(NonBlankParts) >= 2 /\ faulty_calls = 0) =>
        /\ outcome = "returned"
        /\ Len(result.segments) >= 2
        /\ Len(result.segments) = Len(all_segments)
        /\ \A k \in 1..Len(all_segments) :
              \E p \in NonBlankParts :
                  Contains(Concat(Chunks(Strip(parts[p]))),
                           all_segments[k].text)

\* process_text has raised on the text with 但是 in it although both of its
\* parts were classified
C17_MarkedInputRaised ==
    /\ pc = "done"
    /\ input = Str(TextMarked)
    /\ Cardinality(NonBlankParts) = 2
    /\ faulty_calls = 0
    /\ n_calls.classifier = 2
    /\ outcome = "raised"
    /\ error = "no segments"

\* the texts of segments h..Len(segments), as one text
TextsFrom(segments, h) ==
    Concat([k \in 1..(Len(segments) - h + 1) |-> segments[h + k - 1].text])

\* C18: the segments are in the order of the input: the parts of the text
\* are taken in order, the segments of a part are put behind those of the
\* parts before it and hold its chunks in order, every rewritten segment
\* is put behind those rewritten before it, and the result returns them
\* as they are.
C18_SegmentsInInputOrder ==
    [][/\ pi' >= pi
       /\ all_segments' # all_segments =>
             /\ pi' = pi + 1
             /\ chunks = Chunks(Strip(parts[pi]))
             /\ Len(all_segments') > Len(all_segments)
             /\ SubSeq(all_segments', 1, Len(all_segments)) = all_segments
             /\ TextsFrom(all_segments', Len(all_segments) + 1)
                   = Concat(chunks)
       /\ processed_segments' # processed_segments =>
             LET n == Len(processed_segments')
             IN  /\ n = Len(processed_segments) + 1
                 /\ SubSeq(processed_segments', 1, n - 1) = processed_segments
                 /\ processed_segments'[n].emotion = all_segments[n].emotion
                 /\ processed_segments'[n].biblical_references
                       = find_references(all_segments[n].text)
       /\ (outcome' = "returned" /\ outcome # "returned"
             /\ all_segments # <<>>) =>
             /\ result'.segments = processed_segments
             /\ Len(processed_segments) = Len(all_segments)
      ]_vars

\* a result with segments of both parts of the text with 但是 in it, the
\* reference in the last one only
C18_BothPartsReturned ==
    /\ outcome = "returned"
    /\ input = Str(TextMarked)
    /\ Len(result.segments) >= 2
    /\ result.segments[1].biblical_references = <<>>
    /\ result.segments[Len(result.segments)].biblical_references # <<>>

\* ------------------------------------------------------------------------
\* One TextProcessor, process_text called on it more than once
\* ------------------------------------------------------------------------

\* the number of calls of process_text on one object
MaxInvocations == 2

ReuseInputs == {Str(<<>>), Str(TextTen)}

\* process_text is called on an object that is new or has ended a call
\* before: the locals are new, the token_usage of the object and of its
\* TextSegmentProcessor and DuplicationDetector are what the calls before
\* have left
InvokeReused ==
    /\ pc \in {"idle", "done"}
    /\ invocations < MaxInvocations
    /\ \E inp \in ReuseInputs :
        LET v == Validate(inp)
        IN  /\ input' = inp
            /\ pc' = (IF v.kind = "go" THEN "parts" ELSE "done")
            /\ outcome' = (CASE v.kind = "empty" -> "returned"
                             [] v.kind = "raise" -> "raised"
                             [] v.kind = "go" -> "none")
            /\ result' = (IF v.kind = "empty" THEN EmptyResult ELSE NoResult)
            /\ error' = (IF v.kind = "raise" THEN v.error ELSE "none")
            /\ text' = (IF v.kind = "go" THEN v.text ELSE <<>>)
            /\ parts' = (IF v.kind = "go" THEN StrSplit(v.text, hard_marker)
                         ELSE <<>>)
    /\ invocations' = invocations + 1
    /\ tokens_before' = tp_token_usage
    /\ pi' = 1 /\ all_segments' = <<>> /\ total_tokens' = 0
    /\ chunks' = <<>> /\ ci' = 1 /\ emotions' = <<>> /\ sentences' = <<>>
    /\ an_pc' = "idle" /\ retry_count' = 0 /\ attempts' = 0
    /\ last_error' = "none" /\ an_result' = Unbound
    /\ call_faulty' = FALSE /\ primary_rounds' = 0 /\ secondary_calls' = 0
    /\ exhausted' = FALSE
    /\ seg_i' = 1 /\ processed_segments' = <<>> /\ rw_failed' = <<>>
    /\ result_json' = Unbound /\ improved_result' = Unbound
    /\ embeddings' = <<>> /\ dedup_result' = Unbound
    /\ charged' = 0 /\ n_calls' = NoCalls
    /\ UNCHANGED <<reply_key, vUsage, history, faulty_calls>>

NextReuse ==
    \/ InvokeReused
    \/ NextPart
    \/ AnalyzeEnter
    \/ ProviderCall
    \/ Classified
    \/ ImproveSegment
    \/ Embed
    \/ Finish

SpecReuse == InitResultKey /\ [][NextReuse]_vars

DedupFailed ==
    /\ pc \in {"log", "done"}
    /\ n_calls.embedding > 0
    /\ Len(embeddings) < Len(processed_segments)

\* C20: when find_duplicates raises, process_text does not raise: it goes on
\* to return a result whose segments are all the processed segments, one for
\* each segment of step 1 and in that order.
C20_DedupFailureKeepsSegments ==
    DedupFailed =>
        /\ outcome # "raised"
        /\ Len(processed_segments) = Len(all_segments)
        /\ \A k \in 1..Len(all_segments) :
              processed_segments[k].emotion = all_segments[k].emotion
        /\ pc = "done" =>
              /\ outcome = "returned"
              /\ result.segments = processed_segments

\* two segments were processed, the first embedding call answered and the
\* second one raised, and process_text has returned both segments
C20_ReturnedAfterDedupFailure ==
    /\ DedupFailed
    /\ outcome = "returned"
    /\ Len(embeddings) = 1
    /\ Len(result.segments) = 2
    /\ Len(all_segments) = 2

\* ------------------------------------------------------------------------
\* The character normalisation of process_text, alone
\* ------------------------------------------------------------------------

\* the length of the texts that are normalised
MaxNormLen == 3

NormChars == {"SHUO", "shuo", "G1", "G6", "SUR", "a"}

NormTexts ==
    UNION {[1..n -> NormChars] : n \in 1..MaxNormLen}

\* process_text has been given a string that is not empty
InitNormalize ==
    /\ reply_key = "result"
    /\ outcome = "none" /\ result = NoResult /\ error = "none"
    /\ pc = "normalize"
    /\ text \in NormTexts
    /\ input = Str(text) /\ parts = <<>>
    /\ invocations = 0 /\ tokens_before = 0
    /\ sentences = <<>>
    /\ pi = 1 /\ all_segments = <<>> /\ total_tokens = 0
    /\ tp_token_usage = 0 /\ sp_token_usage = 0 /\ dd_token_usage = 0
    /\ chunks = <<>> /\ ci = 1 /\ emotions = <<>>
    /\ an_pc = "idle" /\ retry_count = 0 /\ attempts = 0
    /\ last_error = "none" /\ an_result = Unbound
    /\ seg_i = 1 /\ processed_segments = <<>>
    /\ result_json = Unbound /\ improved_result = Unbound
    /\ embeddings = <<>> /\ dedup_result = Unbound
    /\ history = <<>>
    /\ charged = 0 /\ faulty_calls = 0 /\ n_calls = NoCalls
    /\ call_faulty = FALSE /\ primary_rounds = 0 /\ secondary_calls = 0
    /\ exhausted = FALSE /\ rw_failed = <<>>

\* the loop over the characters: text = normalized_text, or ValueError
NormalizeText ==
    /\ pc = "normalize"
    /\ IF NormalizeRaises(text)
       THEN /\ Raise("encoding")
            /\ UNCHANGED text
       ELSE /\ text' = Normalize(text)
            /\ pc' = "normalized"
            /\ UNCHANGED <<outcome, result, error>>
    /\ UNCHANGED <<reply_key, input, parts, invocations, tokens_before, vLoop,
                   vUsage, vSeg, vAn, vAnRec, vImp, vDedup, history, vRec>>

SpecNormalize == InitNormalize /\ [][NormalizeText]_vars

\* C21: a text that the normalisation has produced is normalised again
\* without an error and comes out as it went in:
\* normalize(normalize(t)) = normalize(t).
C21_NormalizeIdempotent ==
    pc = "normalized" =>
        /\ text = Normalize(input.chars)
        /\ ~NormalizeRaises(text)
        /\ Normalize(text) = text

\* a text with a traditional character, its simplified form and a reserved
\* symbol has been normalised
C21_TraditionalNormalized ==
    /\ pc = "normalized"
    /\ input.chars = <<"SHUO", "shuo", "G1">>
    /\ text = <<"shuo", "shuo", "G1">>

\* C22: a reserved symbol (one of the five of the per-segment step) that
\* is in the text of a segment is in the text of the processed segment made
\* from it, whatever text the rewriter answered with, and in the result that
\* is returned.
C22_ReservedSymbolsKept ==
    /\ \A k \in 1..Len(processed_segments) :
          \A c \in SegmentGbkChars :
              Contains(all_segments[k].text, <<c>>) =>
                  Contains(processed_segments[k].text, <<c>>)
    /\ (outcome = "returned" /\ result # EmptyResult) =>
          result.segments = processed_segments

\* a result was returned with a segment whose text had a reserved symbol
\* and that the rewriter replaced by a text without it
C22_SymbolAfterRewrittenText ==
    /\ outcome = "returned"
    /\ result # EmptyResult
    /\ \E k \in 1..Len(result.segments) :
          /\ Contains(all_segments[k].text, <<"G1">>)
          /\ result.segments[k].text = OtherText \o <<" ", "G1">>

\* the assembling step of segment_by_emotion has run
Assembled == pc \in {"emotions", "merge", "segmented"}

\* C23: the chunks of the assembling step, put together in order, are the
\* sentence units put together in order: every unit is in one chunk, once,
\* and no chunk is there twice.
C23_ChunksAreTheUnits ==
    Assembled => Concat(chunks) = Concat(sentences)

\* a text of one unit has been assembled into two chunks, the unit twice
C23_LastChunkTwice ==
    /\ Assembled
    /\ text = <<"a">>
    /\ sentences = << <<"a">> >>
    /\ chunks = << <<"a">>, <<"a">> >>

\* chunk i is the first chunk of a segment
SegmentStartsAt(i) ==
    \E k \in 1..Len(all_segments) : SegmentOffset(k) = ChunkOffset(i)

\* the chunk that seeded the segment that is open when chunk i is looked at
SeedOf(i) == Max({j \in 1..(i - 1) : SegmentStartsAt(j)})

\* mergeBreak as the property states it
BreakExpected(cur, nxt, chunk) ==
    \/ cur.emotion # nxt.emotion
    \/ nxt.score - cur.score > 5 \/ cur.score - nxt.score > 5
    \/ (cur.emotion \in {"xiyue", "jingxi", "qidai", "manyi"}
        /\ nxt.emotion \in {"youlv", "beishang", "kongju", "fennu",
                            "shiwang", "jiaolv"})
    \/ (nxt.emotion \in {"xiyue", "jingxi", "qidai", "manyi"}
        /\ cur.emotion \in {"youlv", "beishang", "kongju", "fennu",
                            "shiwang", "jiaolv"})
    \/ (cur.emotion \notin {"pingjing", "zhongxing"}
        /\ nxt.emotion \in {"pingjing", "zhongxing"})
    \/ \E m \in {<<"dan", "shi">>, <<"ran", "er">>, <<"bu", "guo">>,
                 <<"ke", "shi">>, <<"que">>, <<"fan", "er">>,
                 <<"xiang", "fan">>} : Contains(chunk, m)

C25_SegmentsAreTheChunks ==
    pc = "segmented" =>
        /\ Len(all_segments) >= 1
        /\ TextsFrom(all_segments, 1) = Concat(chunks)
        /\ \A k \in 1..Len(all_segments) : all_segments[k].text # <<>>

\* two chunks of different labels have become two segments, the second
\* one emitted after the loop
C25_FinalSegmentEmitted ==
    /\ pc = "segmented"
    /\ Len(chunks) = 2
    /\ emotions[1].emotion # emotions[2].emotion
    /\ Len(all_segments) = 2
    /\ all_segments[2].text = chunks[2]

\* ------------------------------------------------------------------------
\* process_text from its step 1 on, for texts with a chunk that analyze
\* rejects for its length
\* ------------------------------------------------------------------------

\* a sentence of 10 letters and a run of letters that no mark divides, one
\* character longer than analyze accepts
OversizedText ==
    LetterRun(10, "a") \o <<"F.">> \o LetterRun(MAX_TOKENS + 1, "b")

PartsTexts ==
    {OversizedText, OversizedText \o hard_marker \o TextTen}

\* process_text has validated its text and is about to split it at 但是
InitParts ==
    /\ reply_key = "result"
    /\ outcome = "none" /\ result = NoResult /\ error = "none"
    /\ pc = "parts"
    /\ text \in PartsTexts
    /\ input = Str(text) /\ parts = StrSplit(text, hard_marker)
    /\ invocations = 1 /\ tokens_before = 0
    /\ sentences = <<>>
    /\ pi = 1 /\ all_segments = <<>> /\ total_tokens = 0
    /\ tp_token_usage = 0 /\ sp_token_usage = 0 /\ dd_token_usage = 0
    /\ chunks = <<>> /\ ci = 1 /\ emotions = <<>>
    /\ an_pc = "idle" /\ retry_count = 0 /\ attempts = 0
    /\ last_error = "none" /\ an_result = Unbound
    /\ seg_i = 1 /\ processed_segments = <<>>
    /\ result_json = Unbound /\ improved_result = Unbound
    /\ embeddings = <<>> /\ dedup_result = Unbound
    /\ history = <<>>
    /\ charged = 0 /\ faulty_calls = 0 /\ n_calls = NoCalls
    /\ call_faulty = FALSE /\ primary_rounds = 0 /\ secondary_calls = 0
    /\ exhausted = FALSE /\ rw_failed = <<>>

NextParts ==
    \/ NextPart
    \/ AnalyzeEnter
    \/ ProviderCall
    \/ Classified
    \/ ImproveSegment
    \/ Embed
    \/ Finish

SpecParts == InitParts /\ [][NextParts]_vars

C27_FailedPartSkipped ==
    [][/\ (pc = "classify" /\ pc' # "classify") =>
              LET whole == /\ an_pc = "returned"
                           /\ "result" \in DOMAIN an_result
                           /\ ci = Len(chunks)
              IN  /\ pc' = "parts"
                  /\ pi' = pi + 1
                  /\ outcome' = "none"
                  /\ IF whole
                     THEN /\ SubSeq(all_segments', 1, Len(all_segments))
                                 = all_segments
                          /\ TextsFrom(all_segments', Len(all_segments) + 1)
                                 = Concat(chunks)
                     ELSE all_segments' = all_segments
       /\ (pc = "parts" /\ pi > Len(parts) /\ all_segments # <<>>) =>
              /\ pc' = "improve"
              /\ outcome' = "none"
       /\ (outcome' = "returned" /\ outcome # "returned") =>
              /\ Len(result'.segments) = Len(all_segments)
              /\ \A k \in 1..Len(all_segments) :
                    result'.segments[k].emotion = all_segments[k].emotion
      ]_vars

\* of two parts the first was lost to a failure of the classifier, and the
\* result holds the segments of the second part
C27_SecondPartReturned ==
    /\ outcome = "returned"
    /\ faulty_calls = 1
    /\ Len(parts) = 2
    /\ n_calls.rewriter = Len(all_segments)
    /\ Len(result.segments) >= 1
    /\ TextsFrom(all_segments, 1) = Concat(Chunks(Strip(parts[2])))

\* step 1 of process_text is over for a text that passed the validation
StepOneOver ==
    /\ pc \notin {"idle", "parts", "classify"}
    /\ Validate(input).kind = "go"

\* C28: when step 1 ends without a segment (every part failed or was
\* blank), process_text raises: it returns no result, it has called neither
\* the rewriter nor the embedding model, and it has written no history log.
C28_NoSegmentIsHardFailure ==
    (StepOneOver /\ all_segments = <<>>) =>
        /\ pc = "done"
        /\ outcome = "raised"
        /\ error = "no segments"
        /\ result = NoResult
        /\ n_calls.rewriter = 0
        /\ n_calls.embedding = 0
        /\ n_calls.log = 0
        /\ history = <<>>

\* both parts of a text were handed to the classifier, no segment came of
\* them, and process_text has raised
C28_BothPartsLost ==
    /\ StepOneOver
    /\ Len(parts) = 2
    /\ n_calls.classifier >= 2
    /\ all_segments = <<>>
    /\ outcome = "raised"
    /\ error = "no segments"

C31_MarkerStartsNextPiece ==
    (pc \in {"assemble", "emotions", "merge", "segmented"}) =>
        /\ \A k \in 1..Len(sentences) :
              \A j \in 2..Len(sentences[k]) : sentences[k][j] # "que"
        /\ LET units == Concat(sentences)
           IN  Cardinality({j \in 1..Len(units) : units[j] = "que"})
                  = Cardinality({j \in 1..Len(text) : text[j] = "que"})

\* 却却a: the piece between the two marks is blank and is dropped with its
\* mark, one unit 却a is left
C31_MarkerOfBlankPieceLost ==
    /\ pc = "assemble"
    /\ text = <<"que", "que", "a">>
    /\ sentences = << <<"que", "a">> >>

OnCancelledCaught(awaited) == "caught"

\* a CancelledError raised at an await is no Exception: tenacity does not
\* retry it, and no "except Exception" of analyze, segment_by_emotion or
\* process_text catches it
OnCancelled(awaited) == "propagate"

\* the task is cancelled while process_text is suspended in a classifier
\* call (asyncio.wait_for, the wait between two attempts, or the request to
\* the secondary): the only places where it is suspended, the other calls
\* being synchronous
Cancel ==
    /\ pc = "classify" /\ an_pc \in {"primary", "secondary"}
    /\ outcome = "none"
    /\ outcome' = "cancelled"
    /\ IF OnCancelled(an_pc) = "propagate"
       THEN /\ pc' = "done"
            /\ an_pc' = "idle"
            /\ error' = "CancelledError"
       ELSE UNCHANGED <<pc, an_pc, error>>
    /\ UNCHANGED <<result, vIn, vLoop, vUsage, vSeg, retry_count, attempts,
                   last_error, an_result, vAnRec, vImp, vDedup, history, vRec>>

NextCancel ==
    \/ NextReuse
    \/ Cancel

SpecCancel == InitResultKey /\ [][NextCancel]_vars

\* C33: from the cancellation of an invocation on, the invocation starts no
\* call of a provider, returns nothing and writes no history log: it has
\* ended with the CancelledError, and nothing changes until process_text is
\* called again.
C33_CancelledRunStops ==
    [][/\ outcome' = "cancelled" =>
              /\ pc' = "done"
              /\ error' = "CancelledError"
              /\ result' = NoResult
       /\ (outcome = "cancelled" /\ invocations' = invocations) =>
              /\ n_calls' = n_calls
              /\ charged' = charged
              /\ history' = history
              /\ outcome' = "cancelled"
      ]_vars

\* an invocation was cancelled in the wait behind a failed attempt on the
\* primary: one call was made, and there is neither a result nor a log
C33_CancelledAfterFailedAttempt ==
    /\ outcome = "cancelled"
    /\ pc = "done"
    /\ invocations = 1
    /\ attempts = 1
    /\ n_calls.classifier = 1
    /\ result = NoResult
    /\ history = <<>>

\* C34: the references recorded with a processed segment are those that
\* find_references finds in the text of the segment as the segmenter made
\* it, whatever the rewriter answered and whether or not it failed, and the
\* result returns them as recorded.
C34_ReferencesOfSegmenterText ==
    [][/\ processed_segments' # processed_segments =>
              LET n == Len(processed_segments')
              IN  /\ n = Len(processed_segments) + 1
                  /\ all_segments' = all_segments
                  /\ processed_segments'[n].biblical_references
                        = find_references(all_segments[n].text)
       /\ (outcome' = "returned" /\ outcome # "returned"
              /\ processed_segments # <<>>) =>
              \A k \in 1..Len(processed_segments) :
                  result'.segments[k].biblical_references
                     = processed_segments[k].biblical_references
      ]_vars

\* a result was returned with a segment for which the rewriter call failed
\* and which holds a reference
C34_ReferenceBesideFailedRewrite ==
    /\ outcome = "returned"
    /\ result # EmptyResult
    /\ \E k \in 1..Len(result.segments) :
          /\ rw_failed[k]
          /\ result.segments[k].biblical_references # <<>>

\* the chunk that opened the segment chunk i is in
OpenerOf(i) == IF SegmentStartsAt(i) THEN i ELSE SeedOf(i)

C37_HasDuplicatesFalse ==
    (outcome = "returned" /\ result # EmptyResult) =>
        ~result.summary.has_duplicates

\* find_duplicates returned fewer texts than it was given, and the result
\* says that there are no duplicates
C37_DuplicateFoundAndDenied ==
    /\ outcome = "returned"
    /\ result # EmptyResult
    /\ DedupReturned
    /\ Len(dedup_result) < Len(processed_segments)
    /\ Len(result.segments) = Len(processed_segments)
    /\ ~result.summary.has_duplicates

C39_PolarityNeverDecides ==
    pc = "segmented" =>
        /\ \A i \in 2..Len(chunks) :
              LET cur == emotions[SeedOf(i)]
                  nxt == emotions[i]
              IN  SegmentStartsAt(i) <=>
                      \/ cur.emotion # nxt.emotion
                      \/ nxt.score - cur.score > 5
                      \/ cur.score - nxt.score > 5
                      \/ HasMarker(chunks[i])
        /\ LET labels == positive_emotions \cup negative_emotions
                             \cup neutral_emotions \cup {"gandong"}
               pairs == [emotion : labels, score : {30, 35, 40}]
           IN  \A i \in {k \in 1..Len(chunks) : Len(chunks[k]) < 10} :
                 LET marked == HasMarker(chunks[i])
                 IN  \A cur \in pairs : \A nxt \in pairs :
                       MergeBreak(cur, nxt, chunks[i]) <=>
                           \/ cur.emotion # nxt.emotion
                           \/ nxt.score - cur.score > 5
                           \/ cur.score - nxt.score > 5
                           \/ marked

\* a chunk of a neutral label at the score of the positive chunk before it,
\* with no transition marker in it, begins a segment
C39_NeutralAfterPositiveBreaks ==
    /\ pc = "segmented"
    /\ Len(chunks) >= 2
    /\ emotions[1] = [emotion |-> "xiyue", score |-> 30]
    /\ emotions[2] = [emotion |-> "pingjing", score |-> 30]
    /\ ~HasMarker(chunks[2])
    /\ SegmentStartsAt(2)
    /\ Len(all_segments) >= 2

=============================================================================
